---------------------------- MODULE Spec2Model ----------------------------
(***************************************************************************)
(* Verification model of the Volkswagen CarController                      *)
(* (opendbc/car/volkswagen/carcontroller.py) and of the CarState HCA fault *)
(* tracking (opendbc/car/volkswagen/carstate.py).                          *)
(*                                                                         *)
(* CarController.update runs once per control frame.  Its steering block   *)
(* runs on the frames that are a multiple of STEER_STEP and has two        *)
(* variants chosen at construction by the platform flag: the torque        *)
(* variant (MQB/PQ) and the curvature variant (MEB).  Its longitudinal     *)
(* block runs on the frames that are a multiple of ACC_CONTROL_STEP.  The  *)
(* steering state and the longitudinal state of the controller share       *)
(* nothing but the frame counter, so each concern is a specification of    *)
(* its own over its fields of the controller:                              *)
(*    SpecTorque   the steering block, torque variant,                     *)
(*    SpecMEB      the steering block, curvature variant,                  *)
(*    SpecSteer    the steering block of the variant the platform has,     *)
(*    SpecLong     the longitudinal block of either variant.               *)
(* The module functions get_long_jerk_limits and get_long_control_limits   *)
(* are also called on their own, over inputs the controller never passes:  *)
(*    SpecJerk     chained calls of get_long_jerk_limits,                  *)
(*    SpecLimits   chained calls of get_long_control_limits.               *)
(* CarState.update_hca_state (carstate.py), the classification of the      *)
(* rack's HCA status into fault flags, is the specification SpecFault.     *)
(* SmootherstepTransition (opendbc/car/smootherstep.py), an object of its  *)
(* own, is the specification SpecSmooth.                                   *)
(*                                                                         *)
(* Numbers.  Torque is an integer number of hardware units, as in the      *)
(* code.  Curvature, speed and steering power are floats in the code; the  *)
(* model uses fixed point: curvature in units of 1/CURV_RES, speed in      *)
(* whole m/s, steering power in whole power units with the interpolated    *)
(* target rounded down to a whole unit.  The platform parameters           *)
(* (CarControllerParams, values.py) keep their names; their values are     *)
(* scaled down so that the state space is finite and small, and the        *)
(* platform value is quoted beside each.                                   *)
(***************************************************************************)
EXTENDS Integers, Sequences, FiniteSets, TLC

VARIABLES
  frame,                        \* self.frame
  flag_meb,                     \* self.CP.flags & VolkswagenFlags.MEB
  apply_torque_last,            \* self.apply_torque_last
  hca_frame_timer_running,      \* self.hca_frame_timer_running
  hca_frame_same_torque,        \* self.hca_frame_same_torque
  eps_timer_soft_disable_alert, \* self.eps_timer_soft_disable_alert
  tq,                           \* the locals of the last update call, torque variant
  apply_curvature_last,         \* self.apply_curvature_last
  steering_power_last,          \* self.steering_power_last
  meb,                          \* the locals of the last update call, MEB variant
  accel_last,                   \* self.accel_last
  long_jerk_last,               \* self.long_jerk_last
  long_override_counter,        \* self.long_override_counter
  long_disabled_counter,        \* self.long_disabled_counter
  lg,                           \* the locals of the last update call, longitudinal block
  cs_frame,                     \* CarState.frame
  eps_init_complete,            \* CarState.eps_init_complete
  hca,                          \* the arguments and results of the last update_hca_state call
  jk,                           \* the arguments and results of the last get_long_jerk_limits call
  lim,                          \* the arguments and results of the last get_long_control_limits calls
  start_value,                  \* SmootherstepTransition.start_value
  target_value,                 \* SmootherstepTransition.target_value
  current_value,                \* SmootherstepTransition.current_value
  elapsed,                      \* SmootherstepTransition.elapsed
  st                            \* the last SmootherstepTransition call

vars == <<frame, flag_meb, apply_torque_last, hca_frame_timer_running,
          hca_frame_same_torque, eps_timer_soft_disable_alert, tq,
          apply_curvature_last, steering_power_last, meb, accel_last,
          long_jerk_last, long_override_counter, long_disabled_counter, lg,
          cs_frame, eps_init_complete, hca, jk, lim,
          start_value, target_value, current_value, elapsed, st>>

torqueVars == <<apply_torque_last, hca_frame_timer_running, hca_frame_same_torque,
                eps_timer_soft_disable_alert, tq>>

mebVars == <<apply_curvature_last, steering_power_last, meb>>

longVars == <<accel_last, long_jerk_last, long_override_counter,
              long_disabled_counter, lg>>

faultVars == <<cs_frame, eps_init_complete, hca>>

\* a SmootherstepTransition object and the record of its last call
smoothVars == <<start_value, target_value, current_value, elapsed, st>>

\* the module functions and the transition object exercised on their own
funcVars == <<jk, lim, smoothVars>>

----------------------------------------------------------------------------
(* Arithmetic helpers                                                      *)

Abs(x) == IF x < 0 THEN -x ELSE x

Max(a, b) == IF a >= b THEN a ELSE b

Min(a, b) == IF a <= b THEN a ELSE b

\* np.clip(x, lo, hi) = minimum(maximum(x, lo), hi)
Clip(x, lo, hi) == Min(Max(x, lo), hi)

\* Python 3 round(): the nearest integer to num/den, ties to the even one.
PyRound(num, den) ==
  LET q == num \div den
      r == num % den
  IN  IF 2 * r < den THEN q
      ELSE IF 2 * r > den THEN q + 1
      ELSE IF q % 2 = 0 THEN q ELSE q + 1

----------------------------------------------------------------------------
(* Bounds of the model and platform parameters (scaled)                    *)

\* update is called while frame < MaxFrame
MaxFrame == 20

\* CCP.STEER_STEP: the steering block runs every STEER_STEP frames (platform: 2)
STEER_STEP == 2

\* CCP.STEER_MAX: maximum torque in hardware units (platform: 300)
STEER_MAX == 4

\* CCP.STEER_TIME_STUCK_TORQUE / DT_CTRL, in frames (platform: 1.9 s / 0.01 s)
STUCK_TORQUE_FRAMES == 4

\* CCP.STEER_TIME_ALERT / DT_CTRL, in frames (platform: 350 s / 0.01 s)
ALERT_FRAMES == 6

\* Limiter: maximum change per steering cycle (platform: STEER_DELTA_UP/DOWN)
STEER_DELTA == 2

\* Limiter: maximum change per steering cycle against the driver's torque
STEER_DELTA_OPPOSED == 1

\* |CS.out.steeringTorque| <= MaxDriverTorque
MaxDriverTorque == 1

\* actuators.torque is a multiple of 1/(2*STEER_MAX) in [-1 - e, 1 + e]
TorqueCmds == (-(2 * STEER_MAX) - 2) .. (2 * STEER_MAX + 2)

DriverTorques == (-MaxDriverTorque) .. MaxDriverTorque

\* CCP.STEERING_POWER_MAX: maximum steering power (platform: 125)
STEERING_POWER_MAX == 7

\* CCP.STEERING_POWER_MIN: minimum steering power of an engaged rack (platform: 40)
STEERING_POWER_MIN == 3

\* CCP.STEERING_POWER_STEPS: the ramp step per steering cycle (platform: 2)
STEERING_POWER_STEPS == 2

\* CCP.STEERING_POWER_USER_REDUCTION: percent of the target ceded to the driver
STEERING_POWER_USER_REDUCTION == 10

\* CCP.STEERING_POWER_MAX_BY_SPEED: speed (m/s) at which the base level is MAX
STEERING_POWER_MAX_BY_SPEED == 4

\* CCP.CURVATURE_MAX, in curvature units (platform: 0.195 1/m)
CURVATURE_MAX == 2

\* CCP.CURVATURE_ERROR, in curvature units: the band around the measured curvature
CURVATURE_ERROR == 1

\* CCP.CURVATURE_POWER_FACTOR, in power units per curvature unit
CURVATURE_POWER_FACTOR == 1

\* Angle limiter: the largest change per steering cycle, allowed at standstill
ANGLE_RATE_MAX == 2

\* The speed (m/s) from which only a curvature increase raises the power target
CURVATURE_CHANGE_SPEED == 3

\* steering_power_target / 100 * (100 - reduction)
PERCENT == 100

\* |CS.curvature| and |filtered desired curvature| <= MaxCurvature (above CURVATURE_MAX)
MaxCurvature == 3

\* CS.out.vEgoRaw <= MaxSpeed
MaxSpeed == 4

Curvatures == (-MaxCurvature) .. MaxCurvature

\* CS.out.vEgoRaw: standstill, inside both interpolation ranges, at and above their ends
Speeds == {v \in 0 .. MaxSpeed : v % 2 = 0}

----------------------------------------------------------------------------
(* Torque variant                                                          *)

\* The limit the external limiter applies to a move from prev to cand
RateLimit(cand, prev, driver_torque) ==
  IF (cand - prev) * driver_torque < 0 THEN STEER_DELTA_OPPOSED ELSE STEER_DELTA

\* Fault injection: a limiter that bounds the magnitude but not the rate
LimiterWithoutRate(new_torque, last, driver_torque) ==
  Clip(new_torque, -STEER_MAX, STEER_MAX)

\* apply_driver_steer_torque_limits(apply_torque, apply_torque_last, driver_torque, LIMITS)
apply_driver_steer_torque_limits(new_torque, last, driver_torque) ==
  LET d == RateLimit(new_torque, last, driver_torque)
  IN  Clip(Clip(new_torque, last - d, last + d), -STEER_MAX, STEER_MAX)

\* int(round(actuators.torque * self.CCP.STEER_MAX))
NewTorque(torque_cmd) == PyRound(torque_cmd * STEER_MAX, 2 * STEER_MAX)

\* Fault injection: a nudge of two hardware units instead of one
NudgeByTwo(apply_torque) == apply_torque - (IF apply_torque < 0 THEN -2 ELSE 2)

\* Fault injection: the nudge with its sign table reversed (away from zero)
NudgeAwayFromZero(apply_torque) == apply_torque - (IF apply_torque < 0 THEN 1 ELSE -1)

\* Fault injection: a stuck torque sent on as it is
NudgeNothing(apply_torque) == apply_torque

\* apply_torque -= (1, -1)[apply_torque < 0]
Nudge(apply_torque) == apply_torque - (IF apply_torque < 0 THEN -1 ELSE 1)

\* Fault injection: the enable test without abs()
HcaEnabledPositiveOnly(apply_torque) == apply_torque > 0

\* hca_enabled = abs(apply_torque) > 0
HcaEnabled(apply_torque) == Abs(apply_torque) > 0

\* Fault injection: the alert comparison made non-strict
SoftDisableAlertNonStrict(timer) == timer >= ALERT_FRAMES

\* self.eps_timer_soft_disable_alert = self.hca_frame_timer_running > STEER_TIME_ALERT / DT_CTRL
SoftDisableAlert(timer) == timer > ALERT_FRAMES

\* Fault injection: the timer without its reset on a disabled cycle
TimerRunningNoReset(latActive, enabled, timer) ==
  IF latActive THEN timer + STEER_STEP ELSE timer

\* self.hca_frame_timer_running += STEER_STEP when latActive; reset when not hca_enabled
TimerRunning(latActive, enabled, timer) ==
  LET counted == IF latActive THEN timer + STEER_STEP ELSE timer
  IN  IF ~enabled THEN 0 ELSE counted

\* Fault injection: a simulated driver torque of once the applied torque
EaSimulatedTorqueSingle(apply_torque, driver_torque) ==
  IF Abs(driver_torque) > Abs(Clip(apply_torque, -STEER_MAX, STEER_MAX))
    THEN driver_torque
    ELSE Clip(apply_torque, -STEER_MAX, STEER_MAX)

\* ea_simulated_torque, handed to create_eps_update on a platform with
\* STOCK_HCA_PRESENT: clip(apply_torque * 2, -STEER_MAX, STEER_MAX), replaced by
\* CS.out.steeringTorque when that is larger in magnitude
EaSimulatedTorque(apply_torque, driver_torque) ==
  IF Abs(driver_torque) > Abs(Clip(apply_torque * 2, -STEER_MAX, STEER_MAX))
    THEN driver_torque
    ELSE Clip(apply_torque * 2, -STEER_MAX, STEER_MAX)

\* Fault injection: a steering block that runs on every frame
SteerFrameAlways(frm) == TRUE

\* self.frame % self.CCP.STEER_STEP == 0
SteerFrame(frm) == frm % STEER_STEP = 0

\* The steering block of update, torque variant (CC.latActive true).  same_run
\* counts the active steering cycles in a row that sent the same apply_torque;
\* the code does not keep it.
SteerTorqueActive(torque_cmd, driver_torque) ==
  \E cand \in {apply_driver_steer_torque_limits(NewTorque(torque_cmd), apply_torque_last,
                                                driver_torque)} :
  \E stuck \in {/\ apply_torque_last = cand
                 /\ hca_frame_same_torque + STEER_STEP > STUCK_TORQUE_FRAMES} :
  \E apply \in {IF stuck THEN Nudge(cand) ELSE cand} :
  \E timer \in {TimerRunning(TRUE, HcaEnabled(apply), hca_frame_timer_running)} :
    /\ hca_frame_same_torque' =
         IF apply_torque_last = cand /\ ~stuck
           THEN hca_frame_same_torque + STEER_STEP ELSE 0
    /\ hca_frame_timer_running' = timer
    /\ eps_timer_soft_disable_alert' = SoftDisableAlert(timer)
    /\ apply_torque_last' = apply
    /\ tq' = [steer |-> TRUE, latActive |-> TRUE, driver_torque |-> driver_torque,
              candidate |-> cand, nudged |-> stuck, apply_torque |-> apply,
              ea_simulated_torque |-> EaSimulatedTorque(apply, driver_torque),
              hca_enabled |-> HcaEnabled(apply), torque_before |-> apply_torque_last,
              timer_before |-> hca_frame_timer_running,
              same_before |-> hca_frame_same_torque,
              same_run |-> IF tq.latActive /\ tq.apply_torque = apply
                             THEN tq.same_run + 1 ELSE 1]

\* The steering block of update, torque variant (CC.latActive false)
SteerTorqueInactive(driver_torque) ==
  /\ hca_frame_same_torque' = hca_frame_same_torque
  /\ hca_frame_timer_running' = TimerRunning(FALSE, FALSE, hca_frame_timer_running)
  /\ eps_timer_soft_disable_alert' =
       SoftDisableAlert(TimerRunning(FALSE, FALSE, hca_frame_timer_running))
  /\ apply_torque_last' = 0
  /\ tq' = [steer |-> TRUE, latActive |-> FALSE, driver_torque |-> driver_torque,
            candidate |-> 0, nudged |-> FALSE, apply_torque |-> 0,
            ea_simulated_torque |-> EaSimulatedTorque(0, driver_torque),
            hca_enabled |-> FALSE, torque_before |-> apply_torque_last,
            timer_before |-> hca_frame_timer_running,
            same_before |-> hca_frame_same_torque, same_run |-> 0]

\* update on a frame that is not a steering frame: no steering command
NoSteerTorque ==
  /\ UNCHANGED <<apply_torque_last, hca_frame_timer_running, hca_frame_same_torque,
                 eps_timer_soft_disable_alert>>
  /\ tq' = [tq EXCEPT !.steer = FALSE]

\* CarController.update, torque variant
UpdateTorque ==
  /\ frame < MaxFrame
  /\ IF SteerFrame(frame)
       THEN \E latActive \in BOOLEAN, driver_torque \in DriverTorques :
              IF latActive
                THEN \E torque_cmd \in TorqueCmds :
                       SteerTorqueActive(torque_cmd, driver_torque)
                ELSE SteerTorqueInactive(driver_torque)
       ELSE NoSteerTorque
  /\ frame' = frame + 1
  /\ UNCHANGED <<flag_meb, mebVars, longVars, faultVars, funcVars>>

----------------------------------------------------------------------------
(* Curvature variant (MEB)                                                 *)

\* np.interp(x, [x0, x1], [y0, y1]): linear between the breakpoints, held outside
Interp(x, x0, x1, y0, y1) ==
  IF x <= x0 THEN y0
  ELSE IF x >= x1 THEN y1
  ELSE y0 + ((y1 - y0) * (x - x0)) \div (x1 - x0)

\* self.smooth_curv.update(target): the filter's output is some curvature in range
SmoothCurvOutputs == Curvatures

\* The angle limiter's largest change per cycle at speed v
AngleRateLimit(v) == Max(1, ANGLE_RATE_MAX - v)

\* apply_std_steer_angle_limits(apply_angle, apply_angle_last, v_ego, ...)
apply_std_steer_angle_limits(apply_angle, apply_angle_last, v) ==
  Clip(apply_angle, apply_angle_last - AngleRateLimit(v), apply_angle_last + AngleRateLimit(v))

\* Fault injection: the active path without its final clip to the maximum
ActiveCurvatureUnclipped(smoothed, last, v, steeringPressed, current_curvature) ==
  LET limited == apply_std_steer_angle_limits(smoothed, last, v)
  IN  IF steeringPressed
        THEN Clip(limited, current_curvature - CURVATURE_ERROR,
                  current_curvature + CURVATURE_ERROR)
        ELSE limited

\* Fault injection: the override band applied before the rate limiter
ActiveCurvatureBandFirst(smoothed, last, v, steeringPressed, current_curvature) ==
  LET synced  == IF steeringPressed
                   THEN Clip(smoothed, current_curvature - CURVATURE_ERROR,
                             current_curvature + CURVATURE_ERROR)
                   ELSE smoothed
      limited == apply_std_steer_angle_limits(synced, last, v)
  IN  Clip(limited, -CURVATURE_MAX, CURVATURE_MAX)

\* apply_curvature on the active path: rate limit, override band, absolute clip
ActiveCurvature(smoothed, last, v, steeringPressed, current_curvature) ==
  LET limited == apply_std_steer_angle_limits(smoothed, last, v)
      synced  == IF steeringPressed
                   THEN Clip(limited, current_curvature - CURVATURE_ERROR,
                             current_curvature + CURVATURE_ERROR)
                   ELSE limited
  IN  Clip(synced, -CURVATURE_MAX, CURVATURE_MAX)

\* Fault injection: the power target without its clip to [MIN, MAX]
SteeringPowerTargetUnclipped(v, apply_curvature, current_curvature) ==
  Interp(v, 0, STEERING_POWER_MAX_BY_SPEED, STEERING_POWER_MIN, STEERING_POWER_MAX)
    + CURVATURE_POWER_FACTOR * (Abs(apply_curvature - current_curvature) + Abs(apply_curvature))

\* steering_power_target: base level by speed plus curvature activity, clipped
SteeringPowerTarget(v, apply_curvature, current_curvature) ==
  LET steering_power_min_by_speed ==
        Interp(v, 0, STEERING_POWER_MAX_BY_SPEED, STEERING_POWER_MIN, STEERING_POWER_MAX)
      steering_curvature_diff == Abs(apply_curvature - current_curvature)
      steering_curvature_increase == Max(0, Abs(apply_curvature) - Abs(current_curvature))
      steering_curvature_change ==
        Interp(v, 0, CURVATURE_CHANGE_SPEED, steering_curvature_diff, steering_curvature_increase)
      steering_power_target_curvature ==
        steering_power_min_by_speed
          + CURVATURE_POWER_FACTOR * (steering_curvature_change + Abs(apply_curvature))
  IN  Clip(steering_power_target_curvature, STEERING_POWER_MIN, STEERING_POWER_MAX)

\* Fault injection: the override level without its floor at the minimum
SteeringPowerUserUnfloored(target) ==
  (target * (PERCENT - STEERING_POWER_USER_REDUCTION)) \div PERCENT

\* steering_power_user: the level the power is ceded to while the driver overrides
SteeringPowerUser(target) ==
  Max((target * (PERCENT - STEERING_POWER_USER_REDUCTION)) \div PERCENT, STEERING_POWER_MIN)

\* Fault injection: the ramp without the activation branch (the target or the
\* override is followed from below the minimum)
ActiveSteeringPowerNoActivation(last, target, steeringPressed) ==
  IF steeringPressed
    THEN Max(last - STEERING_POWER_STEPS, SteeringPowerUser(target))
  ELSE IF last < target
    THEN Min(last + STEERING_POWER_STEPS, target)
  ELSE IF last > target
    THEN Max(last - STEERING_POWER_STEPS, target)
  ELSE last

\* Fault injection: target following that steps a whole step past the target
ActiveSteeringPowerOvershoot(last, target, steeringPressed) ==
  IF last < STEERING_POWER_MIN
    THEN Min(last + STEERING_POWER_STEPS, STEERING_POWER_MIN)
  ELSE IF steeringPressed
    THEN Max(last - STEERING_POWER_STEPS, SteeringPowerUser(target))
  ELSE IF last < target
    THEN last + STEERING_POWER_STEPS
  ELSE IF last > target
    THEN last - STEERING_POWER_STEPS
  ELSE last

\* steering_power on the active path: the three-branch ramp
ActiveSteeringPower(last, target, steeringPressed) ==
  IF last < STEERING_POWER_MIN
    THEN Min(last + STEERING_POWER_STEPS, STEERING_POWER_MIN)
  ELSE IF steeringPressed
    THEN Max(last - STEERING_POWER_STEPS, SteeringPowerUser(target))
  ELSE IF last < target
    THEN Min(last + STEERING_POWER_STEPS, target)
  ELSE IF last > target
    THEN Max(last - STEERING_POWER_STEPS, target)
  ELSE last

\* Fault injection: the boost flag raised from one step below the maximum
SteeringPowerBoostEarly(steering_power) ==
  steering_power >= STEERING_POWER_MAX - 1

\* steering_power_boost = True if steering_power == STEERING_POWER_MAX else False
SteeringPowerBoost(steering_power) == steering_power = STEERING_POWER_MAX

\* The steering block of update, MEB variant, CC.latActive true
SteerMEBActive(v, steeringPressed, current_curvature, smoothed) ==
  \E apply_curvature \in
       {ActiveCurvature(smoothed, apply_curvature_last, v, steeringPressed, current_curvature)} :
  \E target \in {SteeringPowerTarget(v, apply_curvature, current_curvature)} :
  \E steering_power \in {ActiveSteeringPower(steering_power_last, target, steeringPressed)} :
    /\ apply_curvature_last' = apply_curvature
    /\ steering_power_last' = steering_power
    /\ meb' = [steer |-> TRUE, latActive |-> TRUE, steeringPressed |-> steeringPressed,
               current_curvature |-> current_curvature,
               apply_curvature |-> apply_curvature, hca_enabled |-> TRUE,
               steering_power |-> steering_power,
               steering_power_boost |-> SteeringPowerBoost(steering_power),
               power_before |-> steering_power_last, target |-> target,
               inactive_run |-> 0, release_from |-> 0]

\* Fault injection: the release ramp held at one power unit, never reaching zero
ReleaseSteeringPowerStuckAtOne(last) == Max(last - STEERING_POWER_STEPS, 1)

\* Fault injection: the release ramp stepping below zero
ReleaseSteeringPowerUnfloored(last) == last - STEERING_POWER_STEPS

\* steering_power on the inactive path while power is left: one step down, not below 0
ReleaseSteeringPower(last) == Max(last - STEERING_POWER_STEPS, 0)

\* The steering block of update, MEB variant, CC.latActive false.  inactive_run
\* counts the inactive steering cycles in a row and release_from is the power
\* the run started from; neither is read by the controller.
SteerMEBInactive(current_curvature) ==
  \E keep_alive \in {steering_power_last > 0} :
  \E apply_curvature \in
       {IF keep_alive THEN Clip(current_curvature, -CURVATURE_MAX, CURVATURE_MAX) ELSE 0} :
  \E steering_power \in
       {IF keep_alive THEN ReleaseSteeringPower(steering_power_last) ELSE 0} :
    /\ apply_curvature_last' = apply_curvature
    /\ steering_power_last' = steering_power
    /\ meb' = [steer |-> TRUE, latActive |-> FALSE, steeringPressed |-> FALSE,
               current_curvature |-> current_curvature,
               apply_curvature |-> apply_curvature, hca_enabled |-> keep_alive,
               steering_power |-> steering_power, steering_power_boost |-> FALSE,
               power_before |-> steering_power_last, target |-> 0,
               inactive_run |-> meb.inactive_run + 1,
               release_from |-> IF meb.inactive_run = 0 THEN steering_power_last
                                ELSE meb.release_from]

\* update on a frame that is not a steering frame: no steering command
NoSteerMEB ==
  /\ UNCHANGED <<apply_curvature_last, steering_power_last>>
  /\ meb' = [meb EXCEPT !.steer = FALSE]

\* CarController.update, MEB variant
UpdateMEB ==
  /\ frame < MaxFrame
  /\ IF SteerFrame(frame)
       THEN \E latActive \in BOOLEAN, current_curvature \in Curvatures :
              IF latActive
                THEN \E v \in Speeds, steeringPressed \in BOOLEAN,
                        smoothed \in SmoothCurvOutputs :
                       SteerMEBActive(v, steeringPressed, current_curvature, smoothed)
                ELSE SteerMEBInactive(current_curvature)
       ELSE NoSteerMEB
  /\ frame' = frame + 1
  /\ UNCHANGED <<flag_meb, torqueVars, longVars, faultVars, funcVars>>

----------------------------------------------------------------------------
(* HCA fault state tracking (CarState.update_hca_state)                    *)

\* CarState.update is called while cs_frame < MaxCarStateFrame
MaxCarStateFrame == 604

\* self.frame > 600: the grace period of the EPS initialisation, in frames
EPS_INIT_FRAMES == 600

\* The values of CCP.hca_status_values, and None for a raw value it does not map
HcaStatuses == {"DISABLED", "INITIALIZING", "FAULT", "READY", "REJECTED", "ACTIVE",
                "PREEMPTED", "None"}

\* hca_status in ("DISABLED", "READY", "ACTIVE")
CleanStatuses == {"DISABLED", "READY", "ACTIVE"}

\* Fault injection: the initialisation flag recomputed each call, not latched
EpsInitCompleteNotLatched(init_complete, hca_status, frm) ==
  hca_status \in CleanStatuses \/ frm > EPS_INIT_FRAMES

\* Fault injection: the grace period ending one frame early
EpsInitCompleteEarly(init_complete, hca_status, frm) ==
  init_complete \/ (hca_status \in CleanStatuses \/ frm >= EPS_INIT_FRAMES)

\* Fault injection: a latch that DISABLED does not set
EpsInitCompleteWithoutDisabled(init_complete, hca_status, frm) ==
  init_complete \/ (hca_status \in {"READY", "ACTIVE"} \/ frm > EPS_INIT_FRAMES)

\* self.eps_init_complete or (hca_status in (...) or self.frame > 600)
EpsInitComplete(init_complete, hca_status, frm) ==
  init_complete \/ (hca_status \in CleanStatuses \/ frm > EPS_INIT_FRAMES)

\* Fault injection: FAULT taken as permanent whether or not initialisation is complete
PermFaultIgnoringInit(drive_mode, hca_status, init_complete) ==
  (drive_mode /\ hca_status = "DISABLED") \/ hca_status = "FAULT"

\* drive_mode and hca_status == "DISABLED" or (self.eps_init_complete and hca_status == "FAULT")
PermFault(drive_mode, hca_status, init_complete) ==
  (drive_mode /\ hca_status = "DISABLED") \/ (init_complete /\ hca_status = "FAULT")

\* Fault injection: PREEMPTED left out of the temporary statuses
TempFaultRejectedOnly(drive_mode, hca_status, init_complete) ==
  (drive_mode /\ hca_status = "REJECTED") \/ ~init_complete

\* drive_mode and hca_status in ("REJECTED", "PREEMPTED") or not self.eps_init_complete
TempFault(drive_mode, hca_status, init_complete) ==
  (drive_mode /\ hca_status \in {"REJECTED", "PREEMPTED"}) \/ ~init_complete

\* CarState.update: one call of update_hca_state, then self.frame += 1.  The
\* callers pass drive_mode = True or leave the default; the method takes either
\* value.  seen_clean records whether any call so far saw a clean status; the
\* code does not read it.
UpdateHcaState ==
  /\ cs_frame < MaxCarStateFrame
  /\ \E hca_status \in HcaStatuses, drive_mode \in BOOLEAN :
     \E init \in {EpsInitComplete(eps_init_complete, hca_status, cs_frame)} :
       /\ eps_init_complete' = init
       /\ hca' = [called |-> TRUE, status |-> hca_status, drive_mode |-> drive_mode,
                  frame |-> cs_frame, init_before |-> eps_init_complete,
                  temp_fault |-> TempFault(drive_mode, hca_status, init),
                  perm_fault |-> PermFault(drive_mode, hca_status, init),
                  seen_clean |-> hca.seen_clean \/ hca_status \in CleanStatuses]
  /\ cs_frame' = cs_frame + 1
  /\ UNCHANGED <<frame, flag_meb, torqueVars, mebVars, longVars, funcVars>>

----------------------------------------------------------------------------
(* Longitudinal jerk limits (get_long_jerk_limits)                         *)
(*                                                                         *)
(* Fixed point: acceleration in tenths of a m/s^2, time in ms, jerk in     *)
(* thousandths of a m/s^3.  A float division is a floor division here, so  *)
(* a result is the code's result rounded down to a thousandth.             *)

\* jerk_limit = 5.0
jerk_limit == 5000

\* jerk_limit_min = 0.5
jerk_limit_min == 500

\* factor_up = 2.0
factor_up == 2

\* factor_down = 3.0
factor_down == 3

\* error_gain = 0.6: 60 thousandths of jerk for a tenth of acceleration error
error_gain == 60

\* DT_CTRL in ms (0.01 s)
DT_CTRL == 10

\* CCP.ACC_CONTROL_STEP: the longitudinal block runs every ACC_CONTROL_STEP frames
ACC_CONTROL_STEP == 2

\* DT_CTRL * self.CCP.ACC_CONTROL_STEP, the period handed to get_long_jerk_limits
LONG_DT == DT_CTRL * ACC_CONTROL_STEP

\* The largest acceleration magnitude given to get_long_jerk_limits on its own
MaxJerkAccel == 10

\* The number of chained get_long_jerk_limits calls explored
MaxJerkCalls == 2

\* Accelerations, periods and starting estimates for get_long_jerk_limits on its own
JerkAccels == {-MaxJerkAccel, 0, MaxJerkAccel}

JerkDts == {-LONG_DT, 0, LONG_DT}

JerkPrevs == {-3000, -200, 0, 100, 300, 2000}

\* n / d of two numbers, rounded down
FloorDiv(n, d) == IF d > 0 THEN n \div d ELSE (-n) \div (-d)

\* accel_diff = (accel - accel_last) / dt, in thousandths of a m/s^3; a float
\* division by 0 raises ZeroDivisionError
AccelDiff(accel, a_last, dt) ==
  IF dt = 0 THEN [raised |-> TRUE, value |-> 0]
  ELSE [raised |-> FALSE, value |-> FloorDiv(100000 * (accel - a_last), dt)]

\* Fault injection: the estimate without the proportional correction
JerkRawNoErrorGain(accel_diff, accel, a_ego, jerk_prev) ==
  FloorDiv(9 * jerk_prev + accel_diff, 10)

\* jerk_raw = 0.9 * jerk_prev + 0.1 * accel_diff; jerk_raw += a_error * error_gain
JerkRaw(accel_diff, accel, a_ego, jerk_prev) ==
  FloorDiv(9 * jerk_prev + accel_diff, 10) + (accel - a_ego) * error_gain

\* Fault injection: an upper bound without the floor and the ceiling
JerkUpUnclipped(jerk_raw) == jerk_raw * factor_up

\* jerk_up = max(jerk_limit_min, min(jerk_raw * factor_up, jerk_limit))
JerkUp(jerk_raw) == Max(jerk_limit_min, Min(jerk_raw * factor_up, jerk_limit))

\* Fault injection: a lower bound taken from the estimate with its sign kept
JerkDownSameSign(jerk_raw) == Max(jerk_limit_min, Min(jerk_raw * factor_down, jerk_limit))

\* jerk_down = max(jerk_limit_min, min(-jerk_raw * factor_down, jerk_limit))
JerkDown(jerk_raw) == Max(jerk_limit_min, Min((-jerk_raw) * factor_down, jerk_limit))

\* Fault injection: an override that keeps a non-zero estimate
JerkOverrideKeepsEstimate ==
  [raised |-> FALSE, jerk_up |-> jerk_limit_min, jerk_down |-> jerk_limit_min,
   jerk_raw |-> jerk_limit_min]

\* The override branch: jerk_raw = 0, jerk_up = jerk_down = jerk_limit_min
JerkOverride ==
  [raised |-> FALSE, jerk_up |-> jerk_limit_min, jerk_down |-> jerk_limit_min,
   jerk_raw |-> 0]

\* get_long_jerk_limits(accel, accel_last, a_ego, dt, jerk_prev, override); a
\* call that raises returns nothing, its record carries raised and zeros
get_long_jerk_limits(accel, a_last, a_ego, dt, jerk_prev, override) ==
  IF override THEN JerkOverride
  ELSE LET d == AccelDiff(accel, a_last, dt) IN
       IF d.raised
         THEN [raised |-> TRUE, jerk_up |-> 0, jerk_down |-> 0, jerk_raw |-> 0]
         ELSE LET jerk_raw == JerkRaw(d.value, accel, a_ego, jerk_prev) IN
              [raised |-> FALSE, jerk_up |-> JerkUp(jerk_raw),
               jerk_down |-> JerkDown(jerk_raw), jerk_raw |-> jerk_raw]

\* A caller of get_long_jerk_limits that carries the returned estimate into its
\* next call, as CarController.update does with self.long_jerk_last; a call that
\* raised ends the run
GetLongJerkLimits ==
  /\ jk.calls < MaxJerkCalls
  /\ ~jk.raised
  /\ \E accel \in JerkAccels, a_last \in {0, MaxJerkAccel}, a_ego \in {0, MaxJerkAccel},
        dt \in JerkDts, override \in BOOLEAN :
     \E r \in {get_long_jerk_limits(accel, a_last, a_ego, dt, jk.jerk_raw, override)} :
       jk' = [calls |-> jk.calls + 1, accel |-> accel, accel_last |-> a_last,
              a_ego |-> a_ego, dt |-> dt, jerk_prev |-> jk.jerk_raw,
              override |-> override, raised |-> r.raised, jerk_up |-> r.jerk_up,
              jerk_down |-> r.jerk_down, jerk_raw |-> r.jerk_raw]
  /\ UNCHANGED <<frame, flag_meb, torqueVars, mebVars, longVars, faultVars, lim, smoothVars>>

\* The record of get_long_jerk_limits before its first call, the caller
\* holding the estimate jerk0
NoJerkCall(jerk0) ==
  [calls |-> 0, accel |-> 0, accel_last |-> 0, a_ego |-> 0, dt |-> LONG_DT,
   jerk_prev |-> jerk0, override |-> FALSE, raised |-> FALSE,
   jerk_up |-> 0, jerk_down |-> 0, jerk_raw |-> jerk0]

\* Before the first call: the estimate the caller holds is any starting estimate
InitJerkState == \E jerk0 \in JerkPrevs : jk = NoJerkCall(jerk0)

----------------------------------------------------------------------------
(* Longitudinal control limits (get_long_control_limits)                   *)
(*                                                                         *)
(* Fixed point: distance in whole metres, speed in quarters of a m/s, the  *)
(* limits in units of 0.00001, the speed factor in thirds (the factor      *)
(* falls from 1 to 0 over three quarters of a m/s).                        *)

\* lower_limit_factor = 0.048
lower_limit_factor == 4800

\* lower_limit_min = 0.
lower_limit_min == 0

\* lower_limit_max = lower_limit_factor * 6
lower_limit_max == lower_limit_factor * 6

\* upper_limit_factor = 0.0625
upper_limit_factor == 6250

\* upper_limit_min = 0.
upper_limit_min == 0

\* upper_limit_max = upper_limit_factor * 2
upper_limit_max == upper_limit_factor * 2

\* The largest lead distance explored, in m
MaxLimitDistance == 1000

\* The largest speed explored, in quarters of a m/s (60 m/s)
MaxLimitSpeed == 240

\* The number of chained get_long_control_limits calls explored
MaxLimitCalls == 2

\* Distances around the breakpoints 0, 6 and 100 and far beyond the last one
LimitDistances == {0, 3, 6, 7, 50, 99, 100, 101, MaxLimitDistance}

\* Speeds around the overshoot band of 1 to 1.75 m/s above the set speeds
LimitSpeeds == {-8, 0} \cup (4 .. 7) \cup {MaxLimitSpeed}

LimitSetSpeeds == {0, 1, MaxLimitSpeed}

\* Fault injection: an upper limit that grows beyond the last breakpoint
UpperLimitExtrapolated(distance) ==
  upper_limit_min + ((upper_limit_max - upper_limit_min) * distance) \div 100

\* upper_limit = np.interp(distance, [0, 100], [upper_limit_min, upper_limit_max])
UpperLimit(distance) == Interp(distance, 0, 100, upper_limit_min, upper_limit_max)

\* set_speed_diff_up = max(0, abs(speed) - abs(set_speed)), in quarters of a m/s
SetSpeedDiffUp(speed, set_speed) == Max(0, Abs(speed) - Abs(set_speed))

\* Fault injection: a factor that reaches 0 only at 2 m/s of overshoot
SetSpeedDiffUpFactorLate(set_speed_diff_up) == Interp(set_speed_diff_up, 5, 8, 3, 0)

\* set_speed_diff_up_factor = np.interp(set_speed_diff_up, [1, 1.75], [1., 0.]), in thirds
SetSpeedDiffUpFactor(set_speed_diff_up) == Interp(set_speed_diff_up, 4, 7, 3, 0)

\* Fault injection: a baseline that falls between the second and the third breakpoint
LowerLimitBaseFalling(distance) ==
  IF distance <= 6
    THEN Interp(distance, 0, 6, lower_limit_min, lower_limit_factor)
    ELSE Interp(distance, 6, 100, lower_limit_max, lower_limit_factor)

\* np.interp(distance, [0, 6, 100], [lower_limit_min, lower_limit_factor, lower_limit_max])
LowerLimitBase(distance) ==
  IF distance <= 6
    THEN Interp(distance, 0, 6, lower_limit_min, lower_limit_factor)
    ELSE Interp(distance, 6, 100, lower_limit_factor, lower_limit_max)

\* get_long_control_limits(speed, set_speed, distance)
get_long_control_limits(speed, set_speed, distance) ==
  LET factor == SetSpeedDiffUpFactor(SetSpeedDiffUp(speed, set_speed)) IN
  [upper_limit |-> UpperLimit(distance),
   lower_limit |-> (LowerLimitBase(distance) * factor) \div 3]

\* A caller of get_long_control_limits with one set speed; the record keeps the
\* call before the last one beside the last one
GetLongControlLimits ==
  /\ lim.calls < MaxLimitCalls
  /\ \E speed \in LimitSpeeds, distance \in LimitDistances :
     \E r \in {get_long_control_limits(speed, lim.set_speed, distance)} :
       lim' = [calls |-> lim.calls + 1, set_speed |-> lim.set_speed,
               speed |-> speed, distance |-> distance,
               upper_limit |-> r.upper_limit, lower_limit |-> r.lower_limit,
               prev_speed |-> lim.speed, prev_distance |-> lim.distance,
               prev_upper |-> lim.upper_limit, prev_lower |-> lim.lower_limit]
  /\ UNCHANGED <<frame, flag_meb, torqueVars, mebVars, longVars, faultVars, jk, smoothVars>>

\* The record of get_long_control_limits before its first call
NoLimitCall(set_speed) ==
  [calls |-> 0, set_speed |-> set_speed, speed |-> 0, distance |-> 0,
   upper_limit |-> 0, lower_limit |-> 0, prev_speed |-> 0, prev_distance |-> 0,
   prev_upper |-> 0, prev_lower |-> 0]

\* Before the first call: the set speed is any set speed
InitLimitState == \E set_speed \in LimitSetSpeeds : lim = NoLimitCall(set_speed)

----------------------------------------------------------------------------
(* Longitudinal block of CarController.update                              *)
(*                                                                         *)
(* The block runs on the frames that are a multiple of ACC_CONTROL_STEP of *)
(* a controller built with openpilotLongitudinalControl; without it the    *)
(* block never runs and there is no longitudinal cycle to speak of.        *)

\* The last frame index explored by the longitudinal block
MaxLongFrame == 12

\* CCP.ACCEL_MAX in tenths of a m/s^2 (platform: 2.0)
ACCEL_MAX == 20

\* CCP.ACCEL_MIN in tenths of a m/s^2 (platform: -3.5)
ACCEL_MIN == -35

\* The ceiling of long_override_counter and long_disabled_counter
LONG_COUNTER_MAX == 5

\* actuators.accel: below, inside and above [ACCEL_MIN, ACCEL_MAX]
AccelCmds == {ACCEL_MIN - 5, 0, ACCEL_MAX + 5}

\* CS.out.aEgo
EgoAccels == {0, 10}

\* hud_control.leadDistance, with CS.out.vEgoRaw and hud_control.setSpeed both 0
LeadDistances == {50}

\* Fault injection: a command limited from above only
LongAccelNoFloor(active, accel_cmd) ==
  IF active THEN Min(accel_cmd, ACCEL_MAX) ELSE 0

\* accel = float(np.clip(actuators.accel, ACCEL_MIN, ACCEL_MAX) if active else 0),
\* active being CC.enabled (MEB) or CC.longActive (otherwise)
LongAccel(active, accel_cmd) ==
  IF active THEN Clip(accel_cmd, ACCEL_MIN, ACCEL_MAX) ELSE 0

\* min(counter + 1, 5) if condition else 0
LongCounter(condition, counter) ==
  IF condition THEN Min(counter + 1, LONG_COUNTER_MAX) ELSE 0

\* Fault injection: a begin flag that stays up when the counter is at its ceiling
LongBeginNonStrict(condition, counter) == condition /\ counter <= LONG_COUNTER_MAX

\* long_override and self.long_override_counter < 5; not CC.enabled and
\* self.long_disabled_counter < 5
LongBegin(condition, counter) == condition /\ counter < LONG_COUNTER_MAX

\* (0, 0, 0), the jerk bounds and the estimate while CC.enabled is false
DisabledJerkLimits ==
  [raised |-> FALSE, jerk_up |-> 0, jerk_down |-> 0, jerk_raw |-> 0]

\* (0, 0), the control limits while CC.enabled is false
DisabledControlLimits == [upper_limit |-> 0, lower_limit |-> 0]

\* The longitudinal cycle of the MEB variant.  override_run and disabled_run
\* count the longitudinal cycles in a row with override and without CC.enabled,
\* seen_enabled records whether any cycle so far had CC.enabled; the code reads
\* none of the three.
LongMEB(enabled, long_override, accel_cmd, a_ego, distance) ==
  \E accel \in {LongAccel(enabled, accel_cmd)},
     override_counter \in {LongCounter(long_override, long_override_counter)},
     disabled_counter \in {LongCounter(~enabled, long_disabled_counter)},
     limits \in {IF enabled THEN get_long_control_limits(0, 0, distance)
                 ELSE DisabledControlLimits} :
  \E jerk \in {IF enabled
                 THEN get_long_jerk_limits(accel, accel_last, a_ego, LONG_DT,
                                           long_jerk_last, long_override)
                 ELSE DisabledJerkLimits} :
    /\ long_override_counter' = override_counter
    /\ long_disabled_counter' = disabled_counter
    /\ long_jerk_last' = jerk.jerk_raw
    /\ accel_last' = accel
    /\ lg' = [long |-> TRUE, active |-> enabled, long_override |-> long_override,
              accel |-> accel,
              long_override_begin |-> LongBegin(long_override, override_counter),
              long_disabling |-> LongBegin(~enabled, disabled_counter),
              override_run |-> IF long_override THEN lg.override_run + 1 ELSE 0,
              disabled_run |-> IF enabled THEN 0 ELSE lg.disabled_run + 1,
              seen_enabled |-> lg.seen_enabled \/ enabled,
              upper_control_limit |-> limits.upper_limit,
              lower_control_limit |-> limits.lower_limit,
              upper_jerk |-> jerk.jerk_up, lower_jerk |-> jerk.jerk_down,
              accel_last_before |-> accel_last, jerk_before |-> long_jerk_last]

\* The longitudinal cycle of the other variants
LongOther(longActive, accel_cmd) ==
  \E accel \in {LongAccel(longActive, accel_cmd)} :
    /\ accel_last' = accel
    /\ UNCHANGED <<long_jerk_last, long_override_counter, long_disabled_counter>>
    /\ lg' = [lg EXCEPT !.long = TRUE, !.active = longActive, !.accel = accel,
                        !.accel_last_before = accel_last]

\* A frame on which the longitudinal block does not run
NoLong ==
  /\ UNCHANGED <<accel_last, long_jerk_last, long_override_counter,
                 long_disabled_counter>>
  /\ lg' = [lg EXCEPT !.long = FALSE]

\* CarController.update, longitudinal block
UpdateLong ==
  /\ frame < MaxLongFrame
  /\ IF frame % ACC_CONTROL_STEP = 0
       THEN IF flag_meb
              THEN \E enabled \in BOOLEAN, long_override \in BOOLEAN :
                     IF enabled
                       THEN \E accel_cmd \in AccelCmds, a_ego \in EgoAccels,
                               distance \in LeadDistances :
                              LongMEB(TRUE, long_override, accel_cmd, a_ego, distance)
                       ELSE LongMEB(FALSE, long_override, 0, 0, 0)
              ELSE \E longActive \in BOOLEAN :
                     IF longActive
                       THEN \E accel_cmd \in AccelCmds : LongOther(TRUE, accel_cmd)
                       ELSE LongOther(FALSE, 0)
       ELSE NoLong
  /\ frame' = frame + 1
  /\ UNCHANGED <<flag_meb, torqueVars, mebVars, faultVars, funcVars>>

----------------------------------------------------------------------------
(* SmootherstepTransition (opendbc/car/smootherstep.py)                    *)
(*                                                                         *)
(* Fixed point: time in ticks of which SMOOTH_T make the transition time   *)
(* T, values in whole units.  The progress p = elapsed / T is kept as the  *)
(* pair elapsed, T and the polynomial as a numerator over T^5; the         *)
(* interpolated value is rounded down to a whole unit.                     *)

\* self.T in ticks (default 0.25 s)
SMOOTH_T == 4

\* The largest magnitude of a target
MaxSmoothValue == 4

\* The number of calls explored on one object
MaxSmoothCalls == 7

\* new_target of set_target
SmoothTargets == {-MaxSmoothValue, 0, MaxSmoothValue - 1}

\* dt of update: a step back, and steps forward of one and two ticks
SmoothDts == {-1, 1, 2}

\* T^5, the denominator of smootherstep(elapsed / T)
SmoothDen == SMOOTH_T * SMOOTH_T * SMOOTH_T * SMOOTH_T * SMOOTH_T

\* Fault injection: a polynomial that passes 1 before the end of the transition
smootherstepOvershoot(e) ==
  6 * e * e * e * e * e - 15 * e * e * e * e * SMOOTH_T
    + 12 * e * e * e * SMOOTH_T * SMOOTH_T

\* smootherstep(p) = 6 p^5 - 15 p^4 + 10 p^3 for p = e / T, times T^5
smootherstep(e) ==
  6 * e * e * e * e * e - 15 * e * e * e * e * SMOOTH_T
    + 10 * e * e * e * SMOOTH_T * SMOOTH_T

\* current_value of update once elapsed has been advanced to e
SmoothValue(e) ==
  IF e < SMOOTH_T
    THEN start_value + FloorDiv(smootherstep(e) * (target_value - start_value), SmoothDen)
    ELSE target_value

\* SmootherstepTransition.set_target(new_target)
SmoothSetTarget ==
  /\ st.calls < MaxSmoothCalls
  /\ \E new_target \in SmoothTargets :
       /\ start_value' = current_value
       /\ target_value' = new_target
       /\ elapsed' = 0
       /\ st' = [op |-> "set_target", arg |-> new_target, returned |-> 0,
                 current_before |-> current_value, since |-> 0,
                 dts_positive |-> TRUE, calls |-> st.calls + 1]
  /\ UNCHANGED current_value
  /\ UNCHANGED <<frame, flag_meb, torqueVars, mebVars, longVars, faultVars, jk, lim>>

\* SmootherstepTransition.update(dt).  since sums the dt of the updates after
\* the last set_target and dts_positive tells whether all of them were
\* positive; the code keeps neither.
SmoothUpdate ==
  /\ st.calls < MaxSmoothCalls
  /\ \E dt \in SmoothDts :
     \E value \in {SmoothValue(elapsed + dt)} :
       /\ elapsed' = elapsed + dt
       /\ current_value' = value
       /\ st' = [op |-> "update", arg |-> dt, returned |-> value,
                 current_before |-> current_value, since |-> st.since + dt,
                 dts_positive |-> st.dts_positive /\ dt > 0, calls |-> st.calls + 1]
  /\ UNCHANGED <<start_value, target_value>>
  /\ UNCHANGED <<frame, flag_meb, torqueVars, mebVars, longVars, faultVars, jk, lim>>

\* SmootherstepTransition.__init__
InitSmoothState ==
  /\ start_value = 0
  /\ target_value = 0
  /\ current_value = 0
  /\ elapsed = 0
  /\ st = [op |-> "init", arg |-> 0, returned |-> 0, current_before |-> 0,
           since |-> 0, dts_positive |-> TRUE, calls |-> 0]

\* CarState.__init__
InitFaultState ==
  /\ cs_frame = 0
  /\ eps_init_complete = FALSE
  /\ hca = [called |-> FALSE, status |-> "None", drive_mode |-> TRUE, frame |-> 0,
            init_before |-> FALSE, temp_fault |-> FALSE, perm_fault |-> FALSE,
            seen_clean |-> FALSE]

\* CarController.__init__
InitTorqueState ==
  /\ frame = 0
  /\ apply_torque_last = 0
  /\ hca_frame_timer_running = 0
  /\ hca_frame_same_torque = 0
  /\ eps_timer_soft_disable_alert = FALSE
  /\ tq = [steer |-> FALSE, latActive |-> FALSE, driver_torque |-> 0,
           candidate |-> 0, nudged |-> FALSE, apply_torque |-> 0,
           ea_simulated_torque |-> 0,
           hca_enabled |-> FALSE, torque_before |-> 0, timer_before |-> 0,
           same_before |-> 0, same_run |-> 0]

InitMEBState ==
  /\ apply_curvature_last = 0
  /\ steering_power_last = 0
  /\ meb = [steer |-> FALSE, latActive |-> FALSE, steeringPressed |-> FALSE,
            current_curvature |-> 0, apply_curvature |-> 0, hca_enabled |-> FALSE,
            steering_power |-> 0, steering_power_boost |-> FALSE,
            power_before |-> 0, target |-> 0, inactive_run |-> 0, release_from |-> 0]

\* CarController.__init__, longitudinal fields
InitLongState ==
  /\ accel_last = 0
  /\ long_jerk_last = 0
  /\ long_override_counter = 0
  /\ long_disabled_counter = 0
  /\ lg = [long |-> FALSE, active |-> FALSE, long_override |-> FALSE, accel |-> 0,
           long_override_begin |-> FALSE, long_disabling |-> FALSE,
           override_run |-> 0, disabled_run |-> 0, seen_enabled |-> FALSE,
           upper_control_limit |-> 0, lower_control_limit |-> 0,
           upper_jerk |-> 0, lower_jerk |-> 0,
           accel_last_before |-> 0, jerk_before |-> 0]

\* A controller and a car state after construction, no function called on its own
InitObjects ==
  /\ InitTorqueState /\ InitMEBState /\ InitLongState /\ InitFaultState
  /\ jk = NoJerkCall(0)
  /\ lim = NoLimitCall(0)
  /\ InitSmoothState

\* Construction for a platform of the torque variant
Init == InitObjects /\ flag_meb = FALSE

\* Construction for an MEB platform
InitMEB == InitObjects /\ flag_meb = TRUE

\* Construction for either platform
InitAnyPlatform == InitObjects /\ flag_meb \in BOOLEAN

\* The objects constructed, get_long_jerk_limits about to be called on its own
InitJerk ==
  /\ InitTorqueState /\ InitMEBState /\ InitLongState /\ InitFaultState
  /\ flag_meb = TRUE
  /\ InitJerkState
  /\ lim = NoLimitCall(0)
  /\ InitSmoothState

\* The objects constructed, get_long_control_limits about to be called on its own
InitLimits ==
  /\ InitTorqueState /\ InitMEBState /\ InitLongState /\ InitFaultState
  /\ flag_meb = TRUE
  /\ jk = NoJerkCall(0)
  /\ InitLimitState
  /\ InitSmoothState

NextTorque == UpdateTorque

SpecTorque == Init /\ [][NextTorque]_vars

NextMEB == UpdateMEB

SpecMEB == InitMEB /\ [][NextMEB]_vars

NextFault == UpdateHcaState

SpecFault == Init /\ [][NextFault]_vars

\* CarController.update, steering block: the variant follows the platform flag
NextSteer ==
  \/ flag_meb /\ UpdateMEB
  \/ ~flag_meb /\ UpdateTorque

SpecSteer == InitAnyPlatform /\ [][NextSteer]_vars

NextLong == UpdateLong

SpecLong == InitAnyPlatform /\ [][NextLong]_vars

NextJerk == GetLongJerkLimits

SpecJerk == InitJerk /\ [][NextJerk]_vars

NextLimits == GetLongControlLimits

NextSmooth == SmoothSetTarget \/ SmoothUpdate

SpecSmooth == Init /\ [][NextSmooth]_vars

SpecLimits == InitLimits /\ [][NextLimits]_vars

----------------------------------------------------------------------------
(* Properties of the torque variant (SpecTorque)                           *)

\* The stuck-torque condition of the last steering cycle, from its locals
StuckCondition ==
  /\ tq.steer /\ tq.latActive
  /\ tq.candidate = tq.torque_before
  /\ tq.same_before + STEER_STEP > STUCK_TORQUE_FRAMES

\* C1: after every update the stored applied torque is within the maximum,
\* |apply_torque_last| <= STEER_MAX, nudge cycles included.
C1_TorqueWithinMax ==
  /\ Abs(apply_torque_last) <= STEER_MAX
  /\ Abs(tq.apply_torque) <= STEER_MAX

\* C1 witness: the nudge fired on a candidate at the maximum magnitude
C1_Witness == StuckCondition /\ Abs(tq.candidate) = STEER_MAX

\* C3 as stated: on every steering cycle, active or not, the applied torque
\* changes by no more than the limiter's per-cycle rate limit.
C3_RateLimitEveryCycle ==
  tq.steer =>
    Abs(tq.apply_torque - tq.torque_before)
      <= RateLimit(tq.apply_torque, tq.torque_before, tq.driver_torque)

\* C3 amended: on every steering cycle with lateral control active (nudge
\* cycles included) the applied torque changes by no more than the limiter's
\* per-cycle rate limit; with lateral control inactive it is set to 0 at once.
C3_RateLimitWhileActive ==
  tq.steer =>
    /\ tq.latActive =>
         Abs(tq.apply_torque - tq.torque_before)
           <= RateLimit(tq.apply_torque, tq.torque_before, tq.driver_torque)
    /\ ~tq.latActive => tq.apply_torque = 0

\* C3 witness: an active cycle that moved the torque by the full rate limit
\* against a previous non-zero torque
C3_Witness ==
  /\ tq.steer /\ tq.latActive /\ tq.torque_before # 0
  /\ Abs(tq.apply_torque - tq.torque_before) = STEER_DELTA

\* C4: when the candidate equals the previous applied torque and the run-length
\* counter exceeds the stuck threshold, the applied torque's magnitude is one
\* less than the candidate's and hca_frame_same_torque is 0, for every candidate.
C4_NudgeTowardZero ==
  StuckCondition =>
    /\ Abs(tq.apply_torque) = Abs(tq.candidate) - 1
    /\ hca_frame_same_torque = 0

\* C5: after a steering cycle with hca_enabled false the running timer is 0;
\* after one with hca_enabled true it is its previous value plus STEER_STEP.
C5_TimerRunning ==
  tq.steer =>
    /\ ~tq.hca_enabled => hca_frame_timer_running = 0
    /\ tq.hca_enabled => hca_frame_timer_running = tq.timer_before + STEER_STEP

\* C5 witness: a disabled cycle that follows enabled ones
C5_Witness == tq.steer /\ ~tq.hca_enabled /\ tq.timer_before >= 2 * STEER_STEP

\* C6: the soft-disable alert is true exactly when the running timer is
\* strictly above the alert threshold, and false on every disabled cycle.
C6_SoftDisableAlert ==
  /\ eps_timer_soft_disable_alert = (hca_frame_timer_running > ALERT_FRAMES)
  /\ (tq.steer /\ ~tq.hca_enabled) => ~eps_timer_soft_disable_alert

\* C6 witness: the timer stands exactly at the threshold after a steering cycle
C6_Witness == tq.steer /\ tq.hca_enabled /\ hca_frame_timer_running = ALERT_FRAMES

\* C7: hca_enabled is true exactly when the applied torque is non-zero, and
\* with lateral control inactive the torque is 0 and hca_enabled is false.
C7_EnabledIffNonZero ==
  tq.steer =>
    /\ tq.hca_enabled <=> tq.apply_torque # 0
    /\ ~tq.latActive => (tq.apply_torque = 0 /\ ~tq.hca_enabled)

\* C7 witness: an active cycle that applied a negative torque
C7_Witness == tq.steer /\ tq.latActive /\ tq.apply_torque < 0 /\ tq.hca_enabled

\* C31: while lateral control stays active the same applied torque, zero or
\* not, is sent on at most floor((STEER_TIME_STUCK_TORQUE / DT_CTRL) / STEER_STEP) + 1
\* steering cycles in a row, whatever hca_frame_same_torque was when the active
\* phase began.
C31_SameTorqueRunBounded ==
  tq.same_run <= (STUCK_TORQUE_FRAMES \div STEER_STEP) + 1

\* C31 witness: a non-zero torque sent on as many active cycles in a row as
\* the bound allows
C31_Witness ==
  /\ tq.steer /\ tq.latActive /\ tq.apply_torque # 0
  /\ tq.same_run = (STUCK_TORQUE_FRAMES \div STEER_STEP) + 1

----------------------------------------------------------------------------
(* Properties of the curvature variant (SpecMEB)                           *)

\* C2: on every steering cycle and on every path the commanded and the stored
\* curvature are within the maximum, |apply_curvature| <= CURVATURE_MAX.
C2_CurvatureWithinMax ==
  /\ Abs(apply_curvature_last) <= CURVATURE_MAX
  /\ Abs(meb.apply_curvature) <= CURVATURE_MAX

\* C2 witness: the driver overrides at a measured curvature beyond the maximum
\* and the command sits at the maximum
C2_Witness ==
  /\ meb.steer /\ meb.latActive /\ meb.steeringPressed
  /\ Abs(meb.current_curvature) > CURVATURE_MAX
  /\ Abs(meb.apply_curvature) = CURVATURE_MAX

\* C8: from steering_power_last = 0 and after any sequence of steering cycles,
\* steering_power_last is within [0, STEERING_POWER_MAX].
C8_PowerWithinRange ==
  /\ 0 <= steering_power_last
  /\ steering_power_last <= STEERING_POWER_MAX

\* C8 witness: a cycle that started from the maximum power and ended at it
C8_Witness ==
  /\ meb.steer /\ meb.latActive
  /\ meb.power_before = STEERING_POWER_MAX
  /\ steering_power_last = STEERING_POWER_MAX

\* C9: on every steering cycle and in every branch the steering power changes
\* by at most one ramp step, |steering_power - steering_power_last| <= STEPS.
C9_PowerStepBounded ==
  meb.steer => Abs(meb.steering_power - meb.power_before) <= STEERING_POWER_STEPS

\* C10: on every steering cycle, active or not, the boost flag is true exactly
\* when the steering power of that cycle equals STEERING_POWER_MAX.
C10_BoostIffMax ==
  meb.steer => (meb.steering_power_boost <=> meb.steering_power = STEERING_POWER_MAX)

\* C10 witness: an inactive cycle that started from the maximum power
C10_Witness ==
  /\ meb.steer /\ ~meb.latActive
  /\ meb.power_before = STEERING_POWER_MAX

\* The last call ran a steering cycle with lateral control active
ActiveCycle == meb.steer /\ meb.latActive

\* The last call ran a steering cycle with lateral control not active
InactiveCycle == meb.steer /\ ~meb.latActive

\* C11: with lateral control active and steering_power_last below MIN the new
\* power is min(steering_power_last + STEPS, MIN) whatever the target and
\* steeringPressed are, so from 0 the power reaches exactly MIN before any
\* cycle follows the computed target.
C11_ActivationRamp ==
  (ActiveCycle /\ meb.power_before < STEERING_POWER_MIN) =>
    /\ meb.steering_power = Min(meb.power_before + STEERING_POWER_STEPS, STEERING_POWER_MIN)
    /\ meb.steering_power > meb.power_before
    /\ meb.steering_power <= STEERING_POWER_MIN

\* C11 witness: the driver overrides, the target is above MIN and less than a
\* step was missing: the power lands on MIN
C11_Witness ==
  /\ ActiveCycle /\ meb.steeringPressed
  /\ 0 < meb.power_before /\ meb.power_before < STEERING_POWER_MIN
  /\ meb.power_before + STEERING_POWER_STEPS > STEERING_POWER_MIN
  /\ meb.target > STEERING_POWER_MIN
  /\ meb.steering_power = STEERING_POWER_MIN

\* C12: with lateral control active, steeringPressed true and
\* steering_power_last >= MIN the new power is never greater than
\* steering_power_last and never below MIN.
C12_OverrideRampsDown ==
  (ActiveCycle /\ meb.steeringPressed /\ meb.power_before >= STEERING_POWER_MIN) =>
    /\ meb.steering_power <= meb.power_before
    /\ meb.steering_power >= STEERING_POWER_MIN

\* C13: with lateral control active, steeringPressed false and
\* steering_power_last >= MIN the new power lies between steering_power_last and
\* the target, does not cross the target, is unchanged when equal to it, and
\* closes the distance to the target by a step (or all of it), so a constant
\* target is reached after finitely many cycles.
C13_TargetFollowing ==
  (ActiveCycle /\ ~meb.steeringPressed /\ meb.power_before >= STEERING_POWER_MIN) =>
    /\ Min(meb.power_before, meb.target) <= meb.steering_power
    /\ meb.steering_power <= Max(meb.power_before, meb.target)
    /\ meb.power_before = meb.target => meb.steering_power = meb.power_before
    /\ Abs(meb.target - meb.steering_power)
         = Max(Abs(meb.target - meb.power_before) - STEERING_POWER_STEPS, 0)

\* C13 witness: the power came down onto a target less than a step below it
C13_Witness ==
  /\ ActiveCycle /\ ~meb.steeringPressed /\ meb.power_before >= STEERING_POWER_MIN
  /\ meb.target < meb.power_before
  /\ meb.power_before - meb.target < STEERING_POWER_STEPS
  /\ meb.steering_power = meb.target

\* C14: with lateral control not active and steering_power_last > 0, hca_enabled
\* is true, the command is the measured curvature clipped to +/-CURVATURE_MAX and
\* the new power is max(steering_power_last - STEPS, 0); hca_enabled is never
\* false on a cycle that started with power left.
C14_KeepAliveRelease ==
  /\ (InactiveCycle /\ meb.power_before > 0) =>
       /\ meb.hca_enabled
       /\ meb.apply_curvature = Clip(meb.current_curvature, -CURVATURE_MAX, CURVATURE_MAX)
       /\ meb.steering_power = Max(meb.power_before - STEERING_POWER_STEPS, 0)
  /\ (meb.steer /\ meb.power_before > 0) => meb.hca_enabled

\* C14 witness: a release cycle with less than a step of power left and a
\* measured curvature beyond the maximum
C14_Witness ==
  /\ InactiveCycle
  /\ 0 < meb.power_before /\ meb.power_before < STEERING_POWER_STEPS
  /\ Abs(meb.current_curvature) > CURVATURE_MAX

\* The last steering cycle belongs to a run of inactive cycles that began with
\* the power at STEERING_POWER_MAX
ReleaseFromMax == InactiveCycle /\ meb.release_from = STEERING_POWER_MAX

\* C15 as stated: after a deactivation at STEERING_POWER_MAX the power decreases
\* by exactly STEPS on each steering cycle until it is 0.
C15_ReleaseExactSteps ==
  (ReleaseFromMax /\ meb.power_before > 0) =>
    meb.power_before - meb.steering_power = STEERING_POWER_STEPS

\* C15 amended: after a deactivation at STEERING_POWER_MAX, on the n-th inactive
\* cycle in a row the power is max(MAX - n*STEPS, 0) (a full step down, or down
\* to 0 when less than a step is left); once the power was 0 at the start of a
\* cycle, which happens after at most ceil(MAX/STEPS) cycles, that cycle and
\* every later inactive one has hca_enabled false, power 0 and curvature 0.
C15_ReleaseToOff ==
  ReleaseFromMax =>
    /\ meb.steering_power
         = Max(STEERING_POWER_MAX - meb.inactive_run * STEERING_POWER_STEPS, 0)
    /\ meb.power_before > 0 => meb.hca_enabled
    /\ meb.power_before = 0 =>
         (~meb.hca_enabled /\ meb.steering_power = 0 /\ meb.apply_curvature = 0
          /\ steering_power_last = 0 /\ apply_curvature_last = 0)
    /\ (meb.inactive_run - 1) * STEERING_POWER_STEPS >= STEERING_POWER_MAX =>
         meb.power_before = 0

\* C15 witness: the second cycle in a row with the rack fully released after a
\* deactivation at the maximum, the measured curvature being non-zero
C15_Witness ==
  /\ ReleaseFromMax /\ ~meb.hca_enabled
  /\ (meb.inactive_run - 2) * STEERING_POWER_STEPS >= STEERING_POWER_MAX
  /\ meb.current_curvature # 0

\* C16: with lateral control active and steeringPressed true the command is
\* within CURVATURE_ERROR of the measured curvature whenever the measured
\* curvature is within +/-CURVATURE_MAX.
C16_OverrideSync ==
  (ActiveCycle /\ meb.steeringPressed /\ Abs(meb.current_curvature) <= CURVATURE_MAX) =>
    Abs(meb.apply_curvature - meb.current_curvature) <= CURVATURE_ERROR

\* C16 witness: the command sits on the edge of the band around a measured
\* curvature at the maximum
C16_Witness ==
  /\ ActiveCycle /\ meb.steeringPressed
  /\ Abs(meb.current_curvature) = CURVATURE_MAX
  /\ Abs(meb.apply_curvature - meb.current_curvature) = CURVATURE_ERROR

\* C35: on an active steering cycle that starts with the power at or above
\* STEERING_POWER_MIN the new power is at or above STEERING_POWER_MIN too, with
\* and without driver override; so once MIN is reached the power stays at or
\* above it for as long as lateral control stays active.
C35_PowerStaysAboveMin ==
  (ActiveCycle /\ meb.power_before >= STEERING_POWER_MIN) =>
    meb.steering_power >= STEERING_POWER_MIN

\* C35 witness: an override cycle that takes the power from above the minimum
\* down to the minimum
C35_Witness ==
  /\ ActiveCycle /\ meb.steeringPressed
  /\ meb.power_before > STEERING_POWER_MIN
  /\ meb.steering_power = STEERING_POWER_MIN

----------------------------------------------------------------------------
(* Properties of the HCA fault state tracking (SpecFault)                  *)

\* C17: eps_init_complete is a one-way latch: once true it stays true after
\* every later call, whatever the statuses, and it becomes true in the very call
\* that observes DISABLED, READY or ACTIVE.
C17_InitLatch ==
  [][/\ eps_init_complete => eps_init_complete'
     /\ hca'.status \in CleanStatuses => eps_init_complete']_vars

\* C17 witness: the flag is still true after a call inside the grace period
\* whose status is not a clean one
C17_Witness ==
  /\ hca.called /\ hca.init_before /\ eps_init_complete
  /\ hca.status = "FAULT" /\ hca.frame <= EPS_INIT_FRAMES

\* C18: if no status so far was DISABLED, READY or ACTIVE, eps_init_complete is
\* false after every call whose frame is <= 600 and true from the first call
\* whose frame is > 600, the frame growing by one per call; once it is true the
\* temporary fault is reported only for REJECTED or PREEMPTED in drive mode.
C18_GracePeriod ==
  hca.called =>
    /\ cs_frame = hca.frame + 1
    /\ ~hca.seen_clean => (eps_init_complete <=> hca.frame > EPS_INIT_FRAMES)
    /\ eps_init_complete =>
         (hca.temp_fault <=> (hca.drive_mode /\ hca.status \in {"REJECTED", "PREEMPTED"}))

\* C18 witness: the first call past the grace period, no clean status seen, the
\* flag turned true in it and no temporary fault is reported
C18_Witness ==
  /\ hca.called /\ ~hca.seen_clean
  /\ hca.frame = EPS_INIT_FRAMES + 1
  /\ ~hca.init_before /\ eps_init_complete /\ ~hca.temp_fault

\* C19: the permanent fault is true exactly when (drive mode and status DISABLED)
\* or (initialisation complete after this call's latch update and status FAULT);
\* a FAULT seen before initialisation completes raises no permanent fault.
C19_PermFault ==
  hca.called =>
    /\ hca.perm_fault <=>
         ((hca.drive_mode /\ hca.status = "DISABLED")
            \/ (eps_init_complete /\ hca.status = "FAULT"))
    /\ (hca.status = "FAULT" /\ ~eps_init_complete) => ~hca.perm_fault

\* C19 witness: a FAULT status in drive mode before initialisation is complete
C19_Witness ==
  /\ hca.called /\ hca.drive_mode /\ hca.status = "FAULT"
  /\ ~eps_init_complete /\ ~hca.perm_fault

\* C20: the temporary fault is true exactly when (drive mode and status REJECTED
\* or PREEMPTED) or initialisation is not complete after this call's latch update.
C20_TempFault ==
  hca.called =>
    (hca.temp_fault <=>
       ((hca.drive_mode /\ hca.status \in {"REJECTED", "PREEMPTED"})
          \/ ~eps_init_complete))

\* C20 witness: PREEMPTED in drive mode after initialisation completed
C20_Witness ==
  /\ hca.called /\ hca.drive_mode /\ hca.status = "PREEMPTED"
  /\ hca.init_before /\ hca.temp_fault

\* C34: update_hca_state never returns the temporary and the permanent fault
\* both true, for any hca_status, drive_mode, frame and prior eps_init_complete.
C34_FaultsExclusive == hca.called => ~(hca.temp_fault /\ hca.perm_fault)

\* C34 witness: the call that sets eps_init_complete sees DISABLED in drive
\* mode: a permanent fault without the temporary one
C34_Witness ==
  /\ hca.called /\ ~hca.init_before /\ hca.status = "DISABLED" /\ hca.drive_mode
  /\ hca.perm_fault /\ ~hca.temp_fault

----------------------------------------------------------------------------
(* Properties of get_long_jerk_limits (SpecJerk)                           *)

\* The last call ran the branch without override
JerkComputed == jk.calls > 0 /\ ~jk.override

\* 10 * dt times the part of the estimate that the filter contributes, and
\* what the filter's formula says it is: dt * (9 * jerk_prev) + 100000 * the
\* change of accel, both in thousandths of a m/s^3 times 10 * dt
JerkFilterPart == jk.jerk_raw - error_gain * (jk.accel - jk.a_ego)

JerkFilterReference == 9 * jk.jerk_prev * jk.dt + 100000 * (jk.accel - jk.accel_last)

\* C21: with override true, get_long_jerk_limits returns (jerk_limit_min,
\* jerk_limit_min, 0) for every accel, accel_last, a_ego, dt and jerk_prev, so
\* the estimate carried to the next call is 0.
C21_OverrideResets ==
  (jk.calls > 0 /\ jk.override) =>
    /\ ~jk.raised
    /\ jk.jerk_up = jerk_limit_min
    /\ jk.jerk_down = jerk_limit_min
    /\ jk.jerk_raw = 0

\* C21 witness: an override call with a non-zero previous estimate, a change
\* of accel, an acceleration error and a period of 0
C21_Witness ==
  /\ jk.calls > 0 /\ jk.override
  /\ jk.jerk_prev # 0 /\ jk.accel # jk.accel_last /\ jk.accel # jk.a_ego
  /\ jk.dt = 0

\* C23: with override false and dt > 0, jerk_raw is 0.9 * jerk_prev +
\* 0.1 * (accel - accel_last) / dt + 0.6 * (accel - a_ego) (to the thousandth,
\* rounded down), jerk_up is clip(2 * jerk_raw, 0.5, 5.0), jerk_down is
\* clip(-3 * jerk_raw, 0.5, 5.0), the returned estimate is the unclipped
\* jerk_raw, and in steady state it is 0.9 times the previous one.
C23_JerkFormula ==
  (JerkComputed /\ jk.dt > 0) =>
    /\ ~jk.raised
    /\ 10 * jk.dt * JerkFilterPart <= JerkFilterReference
    /\ JerkFilterReference < 10 * jk.dt * (JerkFilterPart + 1)
    /\ jk.jerk_up = Clip(2 * jk.jerk_raw, 500, 5000)
    /\ jk.jerk_down = Clip((-3) * jk.jerk_raw, 500, 5000)
    /\ (jk.accel = jk.accel_last /\ jk.accel = jk.a_ego) =>
         /\ 10 * jk.jerk_raw <= 9 * jk.jerk_prev
         /\ 9 * jk.jerk_prev < 10 * jk.jerk_raw + 10

\* C23 witness: a call with a change of accel, an acceleration error and a
\* non-zero previous estimate whose upper bound lies strictly inside the range
C23_Witness ==
  /\ JerkComputed /\ jk.dt > 0
  /\ jk.accel # jk.accel_last /\ jk.accel # jk.a_ego /\ jk.jerk_prev # 0
  /\ jk.jerk_up > jerk_limit_min /\ jk.jerk_up < jerk_limit

\* C28: with override false and dt <= 0 the call is a no-op: it raises no
\* error and returns the previous estimate.
C28_NoOpOnBadDt ==
  (JerkComputed /\ jk.dt <= 0) => (~jk.raised /\ jk.jerk_raw = jk.jerk_prev)

\* C36: whenever get_long_jerk_limits returns, at least one of jerk_up and
\* jerk_down equals jerk_limit_min, for every input.
C36_OneBoundAtFloor ==
  (jk.calls > 0 /\ ~jk.raised) =>
    (jk.jerk_up = jerk_limit_min \/ jk.jerk_down = jerk_limit_min)

\* C36 witness: a call without override whose estimate is positive, the upper
\* bound above the floor and the lower bound at it
C36_Witness ==
  /\ JerkComputed /\ ~jk.raised /\ jk.jerk_raw > 0
  /\ jk.jerk_up > jerk_limit_min /\ jk.jerk_down = jerk_limit_min

----------------------------------------------------------------------------
(* Properties of get_long_control_limits (SpecLimits)                      *)

\* The speed overshoot of the last call and of the call before it, in
\* quarters of a m/s
Overshoot == Max(0, Abs(lim.speed) - Abs(lim.set_speed))

PrevOvershoot == Max(0, Abs(lim.prev_speed) - Abs(lim.set_speed))

\* C25: for fixed speed and set_speed and distances d1 <= d2 in [0, 1000],
\* upper_limit(d1) <= upper_limit(d2) and lower_limit(d1) <= lower_limit(d2).
C25_MonotoneInDistance ==
  (lim.calls >= 2 /\ lim.prev_speed = lim.speed /\ lim.prev_distance <= lim.distance) =>
    /\ lim.prev_upper <= lim.upper_limit
    /\ lim.prev_lower <= lim.lower_limit

\* C25 witness: two calls at one speed inside the overshoot band, the second
\* farther away, both limits strictly larger
C25_Witness ==
  /\ lim.calls >= 2 /\ lim.prev_speed = lim.speed
  /\ Overshoot > 4 /\ Overshoot < 7
  /\ lim.prev_distance < lim.distance
  /\ lim.prev_upper < lim.upper_limit /\ lim.prev_lower < lim.lower_limit

\* C26: upper_limit lies in [0, 0.125] and lower_limit in [0, 0.288] for every
\* distance in [0, 1000] and every speed and set_speed in [0, 60]; distances
\* above 100 give the values of distance 100.
C26_LimitsInRange ==
  /\ lim.calls > 0 =>
       /\ 0 <= lim.upper_limit /\ lim.upper_limit <= 12500
       /\ 0 <= lim.lower_limit /\ lim.lower_limit <= 28800
  /\ (lim.calls >= 2 /\ lim.prev_speed = lim.speed
        /\ lim.prev_distance = 100 /\ lim.distance > 100) =>
       /\ lim.upper_limit = lim.prev_upper
       /\ lim.lower_limit = lim.prev_lower

\* C26 witness: distance 100 and then the largest distance, without overshoot:
\* both limits at the top of their ranges
C26_Witness ==
  /\ lim.calls >= 2 /\ lim.prev_speed = lim.speed
  /\ lim.prev_distance = 100 /\ lim.distance = MaxLimitDistance
  /\ lim.upper_limit = 12500 /\ lim.lower_limit = 28800

\* C27: only the lower limit is scaled by the speed overshoot
\* max(0, |speed| - |set_speed|): it is the distance baseline up to 1 m/s of
\* overshoot, 0 from 1.75 m/s on and non-increasing in the overshoot in
\* between; the upper limit does not depend on speed or set_speed.
C27_OvershootScalesLower ==
  /\ lim.calls > 0 =>
       /\ Overshoot <= 4 => lim.lower_limit = LowerLimitBase(lim.distance)
       /\ Overshoot >= 7 => lim.lower_limit = 0
       /\ lim.upper_limit = UpperLimit(lim.distance)
  /\ (lim.calls >= 2 /\ lim.prev_distance = lim.distance) =>
       /\ PrevOvershoot <= Overshoot => lim.lower_limit <= lim.prev_lower
       /\ lim.upper_limit = lim.prev_upper

\* C27 witness: two calls at one distance with overshoots of 1.25 and 1.5 m/s,
\* the second lower limit strictly smaller and not yet 0
C27_Witness ==
  /\ lim.calls >= 2 /\ lim.prev_distance = lim.distance
  /\ PrevOvershoot = 5 /\ Overshoot = 6
  /\ 0 < lim.lower_limit /\ lim.lower_limit < lim.prev_lower

----------------------------------------------------------------------------
(* Properties of the longitudinal block (SpecLong)                         *)

\* A jerk bound inside [jerk_limit_min, jerk_limit]
InJerkRange(jerk) == jerk_limit_min <= jerk /\ jerk <= jerk_limit

\* C22 as stated: on every longitudinal cycle of the MEB variant, CC.enabled or
\* not, both jerk bounds handed to create_acc_accel_control lie in [0.5, 5.0].
C22_JerkBoundsEveryCycle ==
  (lg.long /\ flag_meb) => (InJerkRange(lg.upper_jerk) /\ InJerkRange(lg.lower_jerk))

\* C22 amended: on a longitudinal cycle of the MEB variant with CC.enabled both
\* jerk bounds lie in [0.5, 5.0]; with CC.enabled false both bounds and the
\* stored estimate are 0.
C22_JerkBoundsWhileEnabled ==
  (lg.long /\ flag_meb) =>
    /\ lg.active => (InJerkRange(lg.upper_jerk) /\ InJerkRange(lg.lower_jerk))
    /\ ~lg.active => (lg.upper_jerk = 0 /\ lg.lower_jerk = 0 /\ long_jerk_last = 0)

\* C22 witness: an enabled cycle without override whose command rose, the
\* upper bound at the ceiling and the lower bound at the floor
C22_Witness ==
  /\ lg.long /\ flag_meb /\ lg.active /\ ~lg.long_override
  /\ lg.accel > lg.accel_last_before
  /\ lg.upper_jerk = jerk_limit /\ lg.lower_jerk = jerk_limit_min

\* C24: on every longitudinal cycle of either variant the accel sent and stored
\* in accel_last lies in [ACCEL_MIN, ACCEL_MAX], and it is 0 when control is
\* not enabled (CC.enabled for MEB, CC.longActive otherwise).
C24_AccelWithinLimits ==
  lg.long =>
    /\ ACCEL_MIN <= lg.accel /\ lg.accel <= ACCEL_MAX
    /\ accel_last = lg.accel
    /\ ~lg.active => lg.accel = 0

\* C24 witness: a cycle that sends ACCEL_MIN right after one that sent ACCEL_MAX
C24_Witness ==
  lg.long /\ lg.active /\ lg.accel = ACCEL_MIN /\ lg.accel_last_before = ACCEL_MAX

\* C32: long_override_begin is true on exactly the first 4 longitudinal cycles
\* in a row of each override and false on its later cycles and on every cycle
\* without override; long_override_counter stays in [0, 5] and is 0 after any
\* cycle without override.
C32_OverrideBegin ==
  /\ 0 <= long_override_counter /\ long_override_counter <= 5
  /\ (lg.long /\ flag_meb) =>
       /\ lg.long_override_begin <=> (lg.long_override /\ lg.override_run <= 4)
       /\ ~lg.long_override => long_override_counter = 0

\* C32 witness: the fifth cycle in a row of an override, the begin flag down
C32_Witness ==
  /\ lg.long /\ flag_meb /\ lg.long_override /\ lg.override_run = 5
  /\ ~lg.long_override_begin /\ long_override_counter = 5

\* C33: long_disabling is true only on the at most 4 longitudinal cycles in a
\* row that immediately follow a cycle with CC.enabled true, in every run from
\* the initial controller state.
C33_DisablingOnlyAfterEnabled ==
  (lg.long /\ flag_meb /\ lg.long_disabling) =>
    (~lg.active /\ lg.seen_enabled /\ lg.disabled_run <= 4)

----------------------------------------------------------------------------
(* Properties of the steering block of either variant                      *)

\* C29: on every steering cycle of the torque variant the simulated driver
\* torque is clip(2 * apply_torque, -STEER_MAX, STEER_MAX), unless the measured
\* driver torque is strictly larger in magnitude, and then it is the measured
\* driver torque; its magnitude is never below the measured driver torque's.
C29_SimulatedDriverTorque ==
  tq.steer =>
    /\ Abs(tq.driver_torque) > Abs(Clip(2 * tq.apply_torque, -STEER_MAX, STEER_MAX))
         => tq.ea_simulated_torque = tq.driver_torque
    /\ Abs(tq.driver_torque) <= Abs(Clip(2 * tq.apply_torque, -STEER_MAX, STEER_MAX))
         => tq.ea_simulated_torque = Clip(2 * tq.apply_torque, -STEER_MAX, STEER_MAX)
    /\ Abs(tq.ea_simulated_torque) >= Abs(tq.driver_torque)

\* C29 witness: twice the applied torque is inside the range and the driver
\* pushes the other way with less
C29_Witness ==
  /\ tq.steer /\ tq.apply_torque # 0 /\ 2 * Abs(tq.apply_torque) < STEER_MAX
  /\ tq.driver_torque * tq.apply_torque < 0
  /\ tq.ea_simulated_torque = 2 * tq.apply_torque

\* C30: an update call on a frame that is no multiple of STEER_STEP leaves
\* apply_torque_last, apply_curvature_last, steering_power_last,
\* hca_frame_timer_running, hca_frame_same_torque and
\* eps_timer_soft_disable_alert unchanged and emits no steering command; every
\* call increases the frame counter by exactly 1.
C30_FrameGating ==
  [][/\ frame' = frame + 1
     /\ frame % STEER_STEP # 0 =>
          /\ UNCHANGED <<apply_torque_last, apply_curvature_last, steering_power_last,
                         hca_frame_timer_running, hca_frame_same_torque,
                         eps_timer_soft_disable_alert>>
          /\ ~tq'.steer /\ ~meb'.steer]_vars

\* C30 witness: the state after a call on a non-steering frame of the MEB
\* variant, the steering state it kept not being the initial one
C30_Witness ==
  /\ frame > 0 /\ (frame - 1) % STEER_STEP # 0
  /\ flag_meb /\ ~meb.steer
  /\ steering_power_last > 0 /\ apply_curvature_last # 0

----------------------------------------------------------------------------
(* Properties of SmootherstepTransition (SpecSmooth)                       *)

\* C37: set_target(x) leaves current_value as it is, makes it start_value and
\* sets elapsed to 0; the updates after it, as long as every dt is positive,
\* return values between start_value and x, return x itself once the dt
\* summed since set_target is at least T, and go on returning x.
C37_Transition ==
  /\ st.op = "set_target" =>
       /\ current_value = st.current_before
       /\ start_value = st.current_before
       /\ target_value = st.arg
       /\ elapsed = 0
  /\ (st.op = "update" /\ st.dts_positive) =>
       /\ Min(start_value, target_value) <= st.returned
       /\ st.returned <= Max(start_value, target_value)
       /\ st.since >= SMOOTH_T => st.returned = target_value
       /\ st.returned = current_value

\* C37 witness: an update half way through a transition between two different
\* values returns a value strictly between them
C37_Witness ==
  /\ st.op = "update" /\ st.dts_positive
  /\ 0 < st.since /\ st.since < SMOOTH_T
  /\ Min(start_value, target_value) < st.returned
  /\ st.returned < Max(start_value, target_value)

=============================================================================
